---------------------------- MODULE Spec2Model ----------------------------
(***************************************************************************)
(* Model of app.py: a Flask service with two routes.  GET /tokens fetches  *)
(* the pair list of the DEX API, filters it with pandas (liquidity >       *)
(* 5000), inserts every surviving row into the tokens table and answers    *)
(* with the surviving rows; GET / answers a constant string.               *)
(*                                                                         *)
(* JSON values are tagged records.  Strings are sequences of one-character *)
(* strings over a small alphabet (digits, ".", letters); numbers are       *)
(* decimal fixed-point values [n, d] standing for n / 10^d, kept           *)
(* normalised (no trailing fractional zero).  Signs, exponents and white   *)
(* space in numeric strings are outside the alphabet.                      *)
(*                                                                         *)
(* The SQL channel is the one of SQLAlchemy 1.x, the only line on which    *)
(* conn.execute(stmt, **row) is accepted: every INSERT is committed on its *)
(* own (autocommit), and a statement fails when the database is down.      *)
(***************************************************************************)
EXTENDS Integers, Sequences, FiniteSets, TLC

----------------------------------------------------------------------------
(* Bounds of the model. *)

\* longest upstream 'pairs' list over all the modelled listings
MaxPairs == 2

\* longest upstream 'pairs' list over the documented listings alone
MaxRun == 3

\* the liquidity cut-off of filter_data
Threshold == 5000

----------------------------------------------------------------------------
(* JSON values as the upstream body carries them. *)

Digits == {"0", "1", "2", "3", "4", "5", "6", "7", "8", "9"}

DigitVal(c) ==
    CASE c = "0" -> 0 [] c = "1" -> 1 [] c = "2" -> 2 [] c = "3" -> 3
      [] c = "4" -> 4 [] c = "5" -> 5 [] c = "6" -> 6 [] c = "7" -> 7
      [] c = "8" -> 8 [] c = "9" -> 9

\* float('nan'), the value pandas puts in a cell that has no data
NaN == [k |-> "nan"]

\* Python None / JSON null
JNull == [k |-> "null"]

\* marks a key that the listing does not have (not a value)
JAbsent == [k |-> "absent"]

RECURSIVE Pow10(_)
Pow10(d) == IF d = 0 THEN 1 ELSE 10 * Pow10(d - 1)

RECURSIVE Normal(_, _)
\* drops trailing fractional zeros: 1.50 and 1.5 are one number
Normal(n, d) ==
    IF d > 0 /\ n % 10 = 0 THEN Normal(n \div 10, d - 1)
    ELSE [k |-> "num", n |-> n, d |-> d]

JNum(n) == Normal(n, 0)

JStr(s) == [k |-> "str", s |-> s]

\* a JSON object, as the set of its <<key, value>> entries
JObj(ent) == [k |-> "obj", ent |-> ent]

Keys(x) == {e[1] : e \in x.ent}

Lookup(x, key) == (CHOOSE e \in x.ent : e[1] = key)[2]

----------------------------------------------------------------------------
(* Python and pandas primitives used by filter_data. *)

\* bool(x) of the lambdas' `if x`: None, {}, 0 and "" are false, nan is true
Truthy(x) ==
    CASE x.k = "null" -> FALSE
      [] x.k = "obj" -> x.ent # {}
      [] x.k = "num" -> x.n # 0
      [] x.k = "str" -> Len(x.s) > 0
      [] x.k = "nan" -> TRUE

\* whether x has a .get method (only dicts do)
HasGet(x) == x.k = "obj"

\* dict.get(key, default)
DictGet(x, key, default) == IF key \in Keys(x) THEN Lookup(x, key) ELSE default

RECURSIVE DigitsValue(_)
\* value of the digits of s, read left to right, the "." skipped
DigitsValue(s) ==
    IF s = << >> THEN 0
    ELSE LET c == s[Len(s)]
             rest == DigitsValue(SubSeq(s, 1, Len(s) - 1))
         IN  IF c = "." THEN rest ELSE 10 * rest + DigitVal(c)

\* number of characters after the "." of s (0 when there is none)
Decimals(s) ==
    IF \E i \in 1..Len(s) : s[i] = "."
    THEN Len(s) - (CHOOSE i \in 1..Len(s) : s[i] = ".")
    ELSE 0

\* whether float(s) parses: digits with at most one ".", one digit at least
IsDecimal(s) ==
    /\ \A i \in 1..Len(s) : s[i] \in Digits \cup {"."}
    /\ Cardinality({i \in 1..Len(s) : s[i] = "."}) <= 1
    /\ \E i \in 1..Len(s) : s[i] \in Digits

\* pd.to_numeric(column, errors="coerce"), cell by cell
to_numeric(x) ==
    CASE x.k = "num" -> x
      [] x.k = "str" -> IF IsDecimal(x.s)
                        THEN Normal(DigitsValue(x.s), Decimals(x.s))
                        ELSE NaN
      [] x.k = "null" -> NaN
      [] x.k = "nan" -> NaN

\* x > c for a float cell x and an integer c; every comparison with nan is false
Greater(x, c) == x.k = "num" /\ x.n > c * Pow10(x.d)


----------------------------------------------------------------------------
(* filter_data: the pandas pipeline. *)

Columns == {"pairAddress", "priceUsd", "liquidity", "volume"}

\* the keys a listing has
ListingKeys(l) == {c \in Columns : l[c].k # "absent"}

\* pd.DataFrame(raw_data): one row per listing, labelled 0, 1, ...; the columns
\* are the union of the listings' keys, a cell without data holds nan
DataFrame(raw_data) ==
    [columns |-> UNION {ListingKeys(raw_data[i]) : i \in 1..Len(raw_data)},
     rows |-> [i \in 1..Len(raw_data) |->
                  [index |-> i - 1,
                   pairAddress |-> IF raw_data[i].pairAddress.k = "absent"
                                   THEN NaN ELSE raw_data[i].pairAddress,
                   priceUsd |-> IF raw_data[i].priceUsd.k = "absent"
                                THEN NaN ELSE raw_data[i].priceUsd,
                   liquidity |-> IF raw_data[i].liquidity.k = "absent"
                                 THEN NaN ELSE raw_data[i].liquidity,
                   volume |-> IF raw_data[i].volume.k = "absent"
                              THEN NaN ELSE raw_data[i].volume]]]

\* lambda x: x.get(key, 0) if x else 0
Extract(x, key) == IF Truthy(x) THEN DictGet(x, key, JNum(0)) ELSE JNum(0)

\* whether the lambda raises on x: a true value without a .get method
ExtractRaises(x) == Truthy(x) /\ ~HasGet(x)

Raise(type, at) == [type |-> type, at |-> at]

NoException == Raise("none", "none")

\* x >= c: the comparison of Mask_inclusive
GreaterEq(x, c) == x.k = "num" /\ x.n >= c * Pow10(x.d)

\* Mask with the cut-off included (>= for >)
Mask_inclusive(rows) ==
    SelectSeq(rows, LAMBDA row : GreaterEq(row.liquidity, Threshold))

\* Mask that hands the kept rows back last first (as a sort by age would)
Mask_reversed(rows) ==
    LET kept == SelectSeq(rows, LAMBDA row : Greater(row.liquidity, Threshold))
    IN  [i \in 1..Len(kept) |-> kept[Len(kept) + 1 - i]]

\* df[df["liquidity"] > 5000]: the rows of the mask, in the frame's order
Mask(rows) == SelectSeq(rows, LAMBDA row : Greater(row.liquidity, Threshold))

\* df[["pairAddress", "price", "liquidity", "volume", "created_at"]]
Project(rows) ==
    [i \in 1..Len(rows) |->
        [index |-> rows[i].index,
         pairAddress |-> rows[i].pairAddress,
         price |-> rows[i].price,
         liquidity |-> rows[i].liquidity,
         volume |-> rows[i].volume,
         created_at |-> rows[i].created_at]]

\* filter_data(raw_data), called when datetime.utcnow() is `now`: the frame
\* it returns, or the exception it raises
filter_data(raw_data, now) ==
    LET df == DataFrame(raw_data)
        n == Len(raw_data)
        coerced == [i \in 1..n |->
                       [index |-> df.rows[i].index,
                        pairAddress |-> df.rows[i].pairAddress,
                        price |-> to_numeric(df.rows[i].priceUsd),
                        liquidity |-> to_numeric(Extract(df.rows[i].liquidity, "usd")),
                        volume |-> to_numeric(Extract(df.rows[i].volume, "h24")),
                        created_at |-> now]]
    IN  IF "priceUsd" \notin df.columns
        THEN [ok |-> FALSE, exc |-> Raise("KeyError", "filter_data"), df |-> << >>]
        ELSE IF "liquidity" \notin df.columns
        THEN [ok |-> FALSE, exc |-> Raise("KeyError", "filter_data"), df |-> << >>]
        ELSE IF \E i \in 1..n : ExtractRaises(df.rows[i].liquidity)
        THEN [ok |-> FALSE, exc |-> Raise("AttributeError", "filter_data"), df |-> << >>]
        ELSE IF "volume" \notin df.columns
        THEN [ok |-> FALSE, exc |-> Raise("KeyError", "filter_data"), df |-> << >>]
        ELSE IF \E i \in 1..n : ExtractRaises(df.rows[i].volume)
        THEN [ok |-> FALSE, exc |-> Raise("AttributeError", "filter_data"), df |-> << >>]
        ELSE IF "pairAddress" \notin df.columns
        THEN [ok |-> FALSE, exc |-> Raise("KeyError", "filter_data"), df |-> << >>]
        ELSE [ok |-> TRUE, exc |-> NoException, df |-> Project(Mask(coerced))]

----------------------------------------------------------------------------
(* fetch_data_from_dex: the upstream call. *)

\* fetch_data_from_dex without the call of raise_for_status
fetch_data_from_dex_unchecked(u) ==
    IF ~u.reachable
    THEN [ok |-> FALSE, exc |-> Raise("ConnectionError", "fetch_data_from_dex"), pairs |-> << >>]
    ELSE IF u.body = "text"
    THEN [ok |-> FALSE, exc |-> Raise(u.decoder, "fetch_data_from_dex"), pairs |-> << >>]
    ELSE IF u.body = "list"
    THEN [ok |-> FALSE, exc |-> Raise("AttributeError", "fetch_data_from_dex"), pairs |-> << >>]
    ELSE IF ~u.has_pairs \/ u.pairs = << >>
    THEN [ok |-> FALSE, exc |-> Raise("ValueError", "fetch_data_from_dex"), pairs |-> << >>]
    ELSE [ok |-> TRUE, exc |-> NoException, pairs |-> u.pairs]

\* what requests.get / raise_for_status / json / data.get("pairs") make of the
\* upstream's reply u: the pairs list, or the exception raised
fetch_data_from_dex(u) ==
    IF ~u.reachable
    THEN [ok |-> FALSE, exc |-> Raise("ConnectionError", "fetch_data_from_dex"), pairs |-> << >>]
    ELSE IF u.status >= 400 /\ u.status < 600
    THEN [ok |-> FALSE, exc |-> Raise("HTTPError", "fetch_data_from_dex"), pairs |-> << >>]
    ELSE IF u.body = "text"
    THEN [ok |-> FALSE, exc |-> Raise(u.decoder, "fetch_data_from_dex"), pairs |-> << >>]
    ELSE IF u.body = "list"
    THEN [ok |-> FALSE, exc |-> Raise("AttributeError", "fetch_data_from_dex"), pairs |-> << >>]
    ELSE IF ~u.has_pairs \/ u.pairs = << >>
    THEN [ok |-> FALSE, exc |-> Raise("ValueError", "fetch_data_from_dex"), pairs |-> << >>]
    ELSE [ok |-> TRUE, exc |-> NoException, pairs |-> u.pairs]

----------------------------------------------------------------------------
(* get_tokens: the except clauses. *)

\* isinstance(exc, requests.exceptions.RequestException)
IsRequestException(type) ==
    type \in {"ConnectionError", "HTTPError", "requests.JSONDecodeError"}

\* isinstance(exc, ValueError)
IsValueError(type) ==
    type \in {"ValueError", "requests.JSONDecodeError", "json.JSONDecodeError"}

\* the response of the first except clause that matches the exception
HandlerResponse(exc) ==
    IF IsRequestException(exc.type)
    THEN [status |-> 500, kind |-> "json_error",
          error |-> "Failed to fetch data from DEX Screener API.",
          json |-> << >>, raised |-> exc, clause |-> "RequestException"]
    ELSE IF IsValueError(exc.type)
    THEN [status |-> 500, kind |-> "json_error",
          error |-> "No valid data available for Solana tokens.",
          json |-> << >>, raised |-> exc, clause |-> "ValueError"]
    ELSE [status |-> 500, kind |-> "json_error",
          error |-> "An unexpected error occurred.",
          json |-> << >>, raised |-> exc, clause |-> "Exception"]

\* filtered_data.to_dict(orient="records"): the rows without their labels
to_dict(df) ==
    [i \in 1..Len(df) |->
        [pairAddress |-> df[i].pairAddress,
         price |-> df[i].price,
         liquidity |-> df[i].liquidity,
         volume |-> df[i].volume,
         created_at |-> df[i].created_at]]

\* jsonify(filtered_data.to_dict(orient="records"))
OkResponse(df) ==
    [status |-> 200, kind |-> "json_array", error |-> "",
     json |-> to_dict(df), raised |-> NoException, clause |-> "none"]

NoResponse ==
    [status |-> 0, kind |-> "none", error |-> "",
     json |-> << >>, raised |-> NoException, clause |-> "none"]

----------------------------------------------------------------------------
(* The upstream's replies. *)

SeqsUpTo(S, n) == UNION {[1..m -> S] : m \in 0..n}

Listing(addr, price, liq, vol) ==
    [pairAddress |-> addr, priceUsd |-> price, liquidity |-> liq, volume |-> vol]

Usd(v) == JObj({<<"usd", v>>})

H24(v) == JObj({<<"h24", v>>})

\* a listing as the DEX API documents it
Plain(addr, liq) ==
    Listing(JStr(<<addr>>), JStr(<<"1", ".", "5">>), Usd(JNum(liq)), H24(JNum(100)))

\* the listings of the concurrent specification
Listings ==
    {Plain("A", 6000), Plain("B", 4000),
     Listing(JStr(<<"M">>), JStr(<<"2">>), Usd(JNum(7000)), JAbsent)}

PriceShapes ==
    {JStr(<<"a", "b", "c">>), JStr(<< >>), JStr(<<"2", ".", "5", "0">>), JNull, JAbsent}

LiquidityShapes ==
    {JAbsent, JNull, JObj({}), JObj({<<"base", JNum(9000)>>}),
     Usd(JNum(5000)), Usd(JNum(5001)), Usd(JNull), Usd(JStr(<<"a", "b", "c">>)),
     Usd(JStr(<<"6", "0", "0", "0", ".", "5">>)), Usd(JStr(<<"4", "9", "9", "9", ".", "9">>))}

VolumeShapes ==
    {JAbsent, JNull, JObj({}), JObj({<<"h1", JNum(7)>>}), H24(JStr(<<"x">>)), H24(JNum(0))}

\* the listings of the filter specification: the documented shape, and every
\* shape of one field next to documented values of the others
ShapedListings ==
    {Plain("A", 6000), Plain("B", 4000), Plain("B", 8000)}
    \cup {Listing(JStr(<<"P">>), p, Usd(JNum(6000)), H24(JNum(100))) : p \in PriceShapes}
    \cup {Listing(JStr(<<"L">>), JStr(<<"3">>), l, H24(JNum(100))) : l \in LiquidityShapes}
    \cup {Listing(JStr(<<"V">>), JStr(<<"4">>), Usd(JNum(6000)), v) : v \in VolumeShapes}
    \cup {Listing(JAbsent, JStr(<<"5">>), Usd(JNum(6000)), H24(JNum(100)))}

Reply(reachable, status, body, decoder, has_pairs, pairs) ==
    [reachable |-> reachable, status |-> status, body |-> body,
     decoder |-> decoder, has_pairs |-> has_pairs, pairs |-> pairs]

\* replies that are no success: no connection, an error status (whatever the
\* body), a body that is not JSON (the exception class depends on the requests
\* release), a JSON array, an object without 'pairs'
FailedReplies ==
    {Reply(FALSE, 0, "none", "none", FALSE, << >>),
     Reply(TRUE, 503, "text", "none", FALSE, << >>),
     Reply(TRUE, 404, "dict", "none", FALSE, << >>),
     Reply(TRUE, 503, "dict", "none", TRUE, <<Plain("A", 6000)>>),
     Reply(TRUE, 200, "text", "requests.JSONDecodeError", FALSE, << >>),
     Reply(TRUE, 200, "text", "json.JSONDecodeError", FALSE, << >>),
     Reply(TRUE, 200, "list", "none", FALSE, << >>),
     Reply(TRUE, 200, "dict", "none", FALSE, << >>)}

PairsReplies(L) ==
    {Reply(TRUE, 200, "dict", "none", TRUE, p) : p \in SeqsUpTo(L, MaxPairs)}

Upstream == FailedReplies \cup PairsReplies(Listings)

\* runs of documented listings, longer than the lists of shaped ones
RunReplies ==
    {Reply(TRUE, 200, "dict", "none", TRUE, p) :
        p \in SeqsUpTo({Plain("A", 6000), Plain("B", 4000), Plain("C", 7000)}, MaxRun)}

ShapedUpstream == FailedReplies \cup PairsReplies(ShapedListings) \cup RunReplies

----------------------------------------------------------------------------
(* State. *)

\* the /tokens requests the server handles, each in a thread of its own
Requests == {1, 2}

VARIABLES
    pc,             \* pc[r]: where request r stands in get_tokens
    reply,          \* reply[r]: what the upstream sent to request r
    raw_data,       \* raw_data[r]: the list fetch_data_from_dex returned
    filtered_data,  \* filtered_data[r]: the frame filter_data returned
    written,        \* written[r]: rows save_to_database has inserted for r
    response,       \* response[r]: what get_tokens returned
    table,          \* the tokens table, in insertion order
    dbUp,           \* whether the database accepts connections and statements
    health,         \* the last response of GET /
    clock,          \* datetime.utcnow()
    fetches         \* upstream GETs sent so far

vars ==
    <<pc, reply, raw_data, filtered_data, written, response, table, dbUp, health,
      clock, fetches>>

NoHealth == [status |-> 0, body |-> ""]

NoReply == Reply(FALSE, 0, "none", "none", FALSE, << >>)

\* the state once initialize_database has created the empty tokens table and
\* app.run serves requests
Init ==
    /\ pc = [r \in Requests |-> "idle"]
    /\ reply = [r \in Requests |-> NoReply]
    /\ raw_data = [r \in Requests |-> << >>]
    /\ filtered_data = [r \in Requests |-> << >>]
    /\ written = [r \in Requests |-> 0]
    /\ response = [r \in Requests |-> NoResponse]
    /\ table = << >>
    /\ dbUp = TRUE
    /\ health = NoHealth
    /\ clock = 0
    /\ fetches = 0

----------------------------------------------------------------------------
(* GET /tokens, step by step. *)

\* the except clauses: request r answers the exception and ends
Fail(r, exc) ==
    /\ pc' = [pc EXCEPT ![r] = "done"]
    /\ response' = [response EXCEPT ![r] = HandlerResponse(exc)]

\* raw_data = fetch_data_from_dex(), the upstream sending one of the replies U
Fetch(r, U) ==
    /\ pc[r] = "idle"
    /\ fetches' = fetches + 1
    /\ \E u \in U :
          LET res == fetch_data_from_dex(u)
          IN  /\ reply' = [reply EXCEPT ![r] = u]
              /\ IF res.ok
                 THEN /\ pc' = [pc EXCEPT ![r] = "fetched"]
                      /\ raw_data' = [raw_data EXCEPT ![r] = res.pairs]
                      /\ UNCHANGED response
                 ELSE /\ Fail(r, res.exc)
                      /\ UNCHANGED raw_data
    /\ UNCHANGED <<filtered_data, written, table, dbUp, health, clock>>

\* Filter keeping the frame in one module-level variable that all requests share
Filter_shared(r) ==
    /\ pc[r] = "fetched"
    /\ \E now \in {clock, clock + 1} :
          /\ clock' = now
          /\ LET res == filter_data(raw_data[r], now)
             IN  IF res.ok
                 THEN /\ pc' = [pc EXCEPT ![r] = "filtered"]
                      /\ filtered_data' = [q \in Requests |-> res.df]
                      /\ UNCHANGED response
                 ELSE /\ Fail(r, res.exc)
                      /\ UNCHANGED filtered_data
    /\ UNCHANGED <<reply, raw_data, written, table, dbUp, health, fetches>>

\* filtered_data = filter_data(raw_data); utcnow() has not gone back
Filter(r) ==
    /\ pc[r] = "fetched"
    /\ \E now \in {clock, clock + 1} :
          /\ clock' = now
          /\ LET res == filter_data(raw_data[r], now)
             IN  IF res.ok
                 THEN /\ pc' = [pc EXCEPT ![r] = "filtered"]
                      /\ filtered_data' = [filtered_data EXCEPT ![r] = res.df]
                      /\ UNCHANGED response
                 ELSE /\ Fail(r, res.exc)
                      /\ UNCHANGED filtered_data
    /\ UNCHANGED <<reply, raw_data, written, table, dbUp, health, fetches>>

\* save_to_database: with engine.connect() as conn
Connect(r) ==
    /\ pc[r] = "filtered"
    /\ IF dbUp
       THEN /\ pc' = [pc EXCEPT ![r] = "writing"]
            /\ UNCHANGED response
       ELSE Fail(r, Raise("OperationalError", "engine.connect"))
    /\ UNCHANGED <<reply, raw_data, filtered_data, written, table, dbUp, health, clock, fetches>>

\* the row INSERT INTO tokens stores for a row of the frame; req and index
\* record which request and which frame row it came from
Stored(r, row, id) ==
    [id |-> id, pair_address |-> row.pairAddress, price |-> row.price,
     liquidity |-> row.liquidity, volume |-> row.volume,
     created_at |-> row.created_at, req |-> r, index |-> row.index]

\* Insert as an upsert on pair_address: a stored pair is overwritten
Insert_upsert(r) ==
    /\ pc[r] = "writing"
    /\ written[r] < Len(filtered_data[r])
    /\ IF dbUp
       THEN LET row == filtered_data[r][written[r] + 1]
                old == {i \in 1..Len(table) : table[i].pair_address = row.pairAddress}
            IN  /\ table' = IF old = {}
                            THEN Append(table, Stored(r, row, Len(table) + 1))
                            ELSE [i \in 1..Len(table) |->
                                     IF i \in old THEN Stored(r, row, i) ELSE table[i]]
                /\ written' = [written EXCEPT ![r] = written[r] + 1]
                /\ UNCHANGED <<pc, response>>
       ELSE /\ Fail(r, Raise("OperationalError", "conn.execute"))
            /\ UNCHANGED <<table, written>>
    /\ UNCHANGED <<reply, raw_data, filtered_data, dbUp, health, clock, fetches>>

\* Insert inside one transaction per request: a failure takes back the rows
\* the request had inserted
Insert_rollback(r) ==
    /\ pc[r] = "writing"
    /\ written[r] < Len(filtered_data[r])
    /\ IF dbUp
       THEN /\ table' = Append(table,
                   Stored(r, filtered_data[r][written[r] + 1], Len(table) + 1))
            /\ written' = [written EXCEPT ![r] = written[r] + 1]
            /\ UNCHANGED <<pc, response>>
       ELSE /\ Fail(r, Raise("OperationalError", "conn.execute"))
            /\ table' = SelectSeq(table, LAMBDA row : row.req # r)
            /\ UNCHANGED written
    /\ UNCHANGED <<reply, raw_data, filtered_data, dbUp, health, clock, fetches>>

\* save_to_database: one turn of the loop over df.iterrows()
Insert(r) ==
    /\ pc[r] = "writing"
    /\ written[r] < Len(filtered_data[r])
    /\ IF dbUp
       THEN /\ table' = Append(table,
                   Stored(r, filtered_data[r][written[r] + 1], Len(table) + 1))
            /\ written' = [written EXCEPT ![r] = written[r] + 1]
            /\ UNCHANGED <<pc, response>>
       ELSE /\ Fail(r, Raise("OperationalError", "conn.execute"))
            /\ UNCHANGED <<table, written>>
    /\ UNCHANGED <<reply, raw_data, filtered_data, dbUp, health, clock, fetches>>

\* Respond that does not wait for the end of the loop
Respond_early(r) ==
    /\ pc[r] = "writing"
    /\ written[r] <= Len(filtered_data[r])
    /\ pc' = [pc EXCEPT ![r] = "done"]
    /\ response' = [response EXCEPT ![r] = OkResponse(filtered_data[r])]
    /\ UNCHANGED <<reply, raw_data, filtered_data, written, table, dbUp, health, clock, fetches>>

\* the loop is over: return jsonify(filtered_data.to_dict(orient="records"))
Respond(r) ==
    /\ pc[r] = "writing"
    /\ written[r] = Len(filtered_data[r])
    /\ pc' = [pc EXCEPT ![r] = "done"]
    /\ response' = [response EXCEPT ![r] = OkResponse(filtered_data[r])]
    /\ UNCHANGED <<reply, raw_data, filtered_data, written, table, dbUp, health, clock, fetches>>

----------------------------------------------------------------------------
(* GET / and the environment. *)

\* health_check that probes the database before it answers
health_check_probing ==
    /\ health' = IF dbUp
                 THEN [status |-> 200, body |-> "API is running successfully."]
                 ELSE [status |-> 500, body |-> "database unavailable"]
    /\ UNCHANGED <<pc, reply, raw_data, filtered_data, written, response, table, dbUp,
                   clock, fetches>>

\* GET /
health_check ==
    /\ health' = [status |-> 200, body |-> "API is running successfully."]
    /\ UNCHANGED <<pc, reply, raw_data, filtered_data, written, response, table, dbUp,
                   clock, fetches>>

\* the database goes down
DbFails ==
    /\ dbUp
    /\ dbUp' = FALSE
    /\ UNCHANGED <<pc, reply, raw_data, filtered_data, written, response, table, health,
                   clock, fetches>>

\* the database comes back, the table as it was
DbRecovers ==
    /\ ~dbUp
    /\ dbUp' = TRUE
    /\ UNCHANGED <<pc, reply, raw_data, filtered_data, written, response, table, health,
                   clock, fetches>>

----------------------------------------------------------------------------
(* Specifications. *)

Step(r) == Filter(r) \/ Connect(r) \/ Insert(r) \/ Respond(r)

\* concurrent requests over the documented listings
Next ==
    \/ \E r \in Requests : Fetch(r, Upstream)
    \/ \E r \in Requests : Step(r)
    \/ health_check
    \/ DbFails
    \/ DbRecovers

Spec == Init /\ [][Next]_vars

\* one request over every shape of listing, the database up or down
InitFilter ==
    /\ pc = [r \in Requests |-> "idle"]
    /\ reply = [r \in Requests |-> NoReply]
    /\ raw_data = [r \in Requests |-> << >>]
    /\ filtered_data = [r \in Requests |-> << >>]
    /\ written = [r \in Requests |-> 0]
    /\ response = [r \in Requests |-> NoResponse]
    /\ table = << >>
    /\ dbUp \in BOOLEAN
    /\ health = NoHealth
    /\ clock = 0
    /\ fetches = 0

NextFilter ==
    \/ Fetch(1, ShapedUpstream)
    \/ Step(1)

SpecFilter == InitFilter /\ [][NextFilter]_vars

----------------------------------------------------------------------------
(* What the properties speak of: the upstream listing as it was sent. *)

\* the listing has a liquidity object with a 'usd' entry
HasUsd(l) == l.liquidity.k = "obj" /\ "usd" \in Keys(l.liquidity)

\* liquidity.usd is a number, or the text of one, above 5000
HighLiquidity(l) ==
    HasUsd(l) /\ Greater(to_numeric(Lookup(l.liquidity, "usd")), 5000)

\* the numeric value of priceUsd, nan when it has none
ExpectedPrice(l) ==
    IF l.priceUsd.k \in {"num", "str"} THEN to_numeric(l.priceUsd) ELSE NaN

\* volume.h24, 0 when the volume object or its h24 entry is missing
ExpectedVolume(l) ==
    IF l.volume.k = "obj" /\ "h24" \in Keys(l.volume)
    THEN to_numeric(Lookup(l.volume, "h24"))
    ELSE JNum(0)

\* the rows of the tokens table that request r inserted, in table order
RowsOf(r) == SelectSeq(table, LAMBDA row : row.req = r)

\* a stored row t holds the values of the frame or response row d
SameRow(t, d) ==
    /\ t.pair_address = d.pairAddress
    /\ t.price = d.price
    /\ t.liquidity = d.liquidity
    /\ t.volume = d.volume
    /\ t.created_at = d.created_at

\* the listing a frame row or a stored row was made from
Origin(r, row) == raw_data[r][row.index + 1]

----------------------------------------------------------------------------
(* C1: no row of a frame filter_data returned, of a /tokens response or of *)
(* the tokens table has liquidity <= 5000 or nan, and none was made from a *)
(* listing whose liquidity.usd is missing, null, not numeric or <= 5000.   *)
C1_LiquidityThreshold ==
    /\ \A r \in Requests :
          /\ \A j \in 1..Len(filtered_data[r]) :
                /\ Greater(filtered_data[r][j].liquidity, 5000)
                /\ HighLiquidity(Origin(r, filtered_data[r][j]))
          /\ \A j \in 1..Len(response[r].json) :
                Greater(response[r].json[j].liquidity, 5000)
    /\ \A i \in 1..Len(table) :
          /\ Greater(table[i].liquidity, 5000)
          /\ HighLiquidity(Origin(table[i].req, table[i]))

\* a request answered 200 with one row out of two listings, the other of
\* liquidity exactly 5000, and the row is in the table
C1_Witness ==
    \E r \in Requests :
       /\ response[r].status = 200
       /\ Len(raw_data[r]) = 2
       /\ raw_data[r][1].liquidity = Usd(JNum(5000))
       /\ Len(response[r].json) = 1
       /\ Len(table) = 1

\* every listing of raw has the keys pairAddress, priceUsd and liquidity
HasMainKeys(raw) ==
    \A i \in 1..Len(raw) :
       {"pairAddress", "priceUsd", "liquidity"} \subseteq ListingKeys(raw[i])

(* C2: once filter_data has run on a list whose listings have pairAddress, *)
(* priceUsd and liquidity, every listing with liquidity.usd > 5000 has     *)
(* exactly one row in the frame, with its pairAddress, the numeric value   *)
(* of priceUsd (nan if it has none), liquidity.usd, and volume.h24 (0 when *)
(* the volume object or its h24 entry is missing); no error is raised.     *)
C2_FilterComplete ==
    \A r \in Requests :
       (pc[r] \notin {"idle", "fetched"} /\ raw_data[r] # << >>
           /\ HasMainKeys(raw_data[r])) =>
          \A i \in 1..Len(raw_data[r]) :
             HighLiquidity(raw_data[r][i]) =>
                /\ response[r].raised.at # "filter_data"
                /\ Cardinality({j \in 1..Len(filtered_data[r]) :
                                   filtered_data[r][j].index = i - 1}) = 1
                /\ \A j \in 1..Len(filtered_data[r]) :
                      filtered_data[r][j].index = i - 1 =>
                         /\ filtered_data[r][j].pairAddress = raw_data[r][i].pairAddress
                         /\ filtered_data[r][j].price = ExpectedPrice(raw_data[r][i])
                         /\ filtered_data[r][j].liquidity =
                               to_numeric(Lookup(raw_data[r][i].liquidity, "usd"))
                         /\ filtered_data[r][j].volume = ExpectedVolume(raw_data[r][i])

(* C3: the rows of a frame, of the JSON array of a 200 response and of the *)
(* rows a request inserted stand in the order of the upstream list: each   *)
(* row is its listing's, and the listings' positions increase.             *)
C3_StableFilter ==
    \A r \in Requests :
       /\ \A a, b \in 1..Len(filtered_data[r]) :
             a < b => filtered_data[r][a].index < filtered_data[r][b].index
       /\ \A j \in 1..Len(filtered_data[r]) :
             filtered_data[r][j].pairAddress.k = "str" =>
                filtered_data[r][j].pairAddress = Origin(r, filtered_data[r][j]).pairAddress
       /\ response[r].status = 200 =>
             /\ Len(response[r].json) = Len(filtered_data[r])
             /\ \A j \in 1..Len(filtered_data[r]) :
                   /\ response[r].json[j].pairAddress = filtered_data[r][j].pairAddress
                   /\ response[r].json[j].liquidity = filtered_data[r][j].liquidity
       /\ \A a, b \in 1..Len(RowsOf(r)) :
             a < b => RowsOf(r)[a].index < RowsOf(r)[b].index
       /\ \A j \in 1..Len(RowsOf(r)) :
             RowsOf(r)[j].pair_address.k = "str" =>
                RowsOf(r)[j].pair_address = Origin(r, RowsOf(r)[j]).pairAddress

\* the list A, B, C with B below the cut-off: the response and the table
\* hold A then C
C3_Witness ==
    \E r \in Requests :
       /\ raw_data[r] = <<Plain("A", 6000), Plain("B", 4000), Plain("C", 7000)>>
       /\ response[r].status = 200
       /\ Len(response[r].json) = 2
       /\ response[r].json[1].pairAddress = JStr(<<"A">>)
       /\ response[r].json[2].pairAddress = JStr(<<"C">>)
       /\ Len(table) = 2
       /\ table[1].pair_address = JStr(<<"A">>)
       /\ table[2].pair_address = JStr(<<"C">>)

\* the upstream call did not succeed: no connection, a status outside 2xx,
\* or a body without a top-level 'pairs'
FailedUpstream(u) ==
    \/ ~u.reachable
    \/ u.status \notin 200..299
    \/ u.body # "dict"
    \/ ~u.has_pairs

C5_HealthEndpoint ==
    /\ [](ENABLED health_check)
    /\ [][health_check =>
            /\ health'.status = 200
            /\ health'.body = "API is running successfully."
            /\ table' = table
            /\ fetches' = fetches
            /\ pc' = pc
            /\ response' = response]_vars

\* GET / answered 200 while the database is down, a /tokens request is
\* between two inserts and another has failed
C5_Witness ==
    /\ health.status = 200
    /\ ~dbUp
    /\ \E r \in Requests : pc[r] = "writing" /\ written[r] = 1
    /\ \E r \in Requests : response[r].status = 500

(* C6: a request whose upstream list is not empty and has no listing with  *)
(* liquidity.usd > 5000 ends with a 200 response carrying an empty array,  *)
(* and has inserted no row.                                                *)
C6_EmptyIsSuccess ==
    \A r \in Requests :
       (/\ pc[r] = "done"
        /\ raw_data[r] # << >>
        /\ \A i \in 1..Len(raw_data[r]) : ~HighLiquidity(raw_data[r][i])) =>
          /\ response[r].status = 200
          /\ response[r].kind = "json_array"
          /\ response[r].json = << >>
          /\ RowsOf(r) = << >>

\* the number of listings of raw with liquidity.usd > 5000
NumHigh(raw) == Cardinality({i \in 1..Len(raw) : HighLiquidity(raw[i])})

RECURSIVE SumHigh(_)
\* NumHigh summed over the requests of R
SumHigh(R) ==
    IF R = {} THEN 0
    ELSE LET r == CHOOSE q \in R : TRUE
         IN  NumHigh(raw_data[r]) + SumHigh(R \ {r})

\* table t goes on from table s: the rows of s, unchanged, then new ones
Extends(t, s) == Len(t) >= Len(s) /\ SubSeq(t, 1, Len(s)) = s

(* C7: every step leaves the rows of the tokens table in place, unchanged, *)
(* and adds rows after them at most; a request answered 200 whose list has *)
(* k listings above the cut-off has inserted exactly k rows, whatever the  *)
(* table held, so that requests all answered 200 leave the sum of their k. *)
C7_AppendOnly ==
    /\ [][Extends(table', table)]_vars
    /\ [](\A r \in Requests :
             response[r].status = 200 => Len(RowsOf(r)) = NumHigh(raw_data[r]))
    /\ []((\A r \in Requests : response[r].status = 200) =>
             Len(table) = SumHigh(Requests))

\* two requests over the same list of two A listings: four rows, all of pair A
C7_Witness ==
    /\ \A r \in Requests : response[r].status = 200
    /\ \A r \in Requests : raw_data[r] = <<Plain("A", 6000), Plain("A", 6000)>>
    /\ Len(table) = 4
    /\ \A i \in 1..Len(table) : table[i].pair_address = JStr(<<"A">>)

\* the steps of get_tokens in their order, an exception ending the request
PcOrder ==
    {<<"idle", "fetched">>, <<"fetched", "filtered">>, <<"filtered", "writing">>,
     <<"writing", "done">>, <<"idle", "done">>, <<"fetched", "done">>,
     <<"filtered", "done">>}

(* C8: a request goes through fetch, filter, write, respond in this order; *)
(* it inserts rows only once its fetch and its filter have succeeded, the  *)
(* rows of its frame one after the other; a request that failed in the     *)
(* fetch or the filter has inserted nothing; a 200 response carries        *)
(* exactly the rows the request has inserted, in their order.              *)
C8_RequestOrder ==
    /\ [][\A r \in Requests :
             /\ pc'[r] # pc[r] => <<pc[r], pc'[r]>> \in PcOrder
             /\ RowsOf(r)' # RowsOf(r) =>
                   /\ pc[r] = "writing"
                   /\ ~FailedUpstream(reply[r])
                   /\ raw_data[r] # << >>]_vars
    /\ [](\A r \in Requests :
             /\ Len(RowsOf(r)) = written[r]
             /\ written[r] <= Len(filtered_data[r])
             /\ \A j \in 1..Len(RowsOf(r)) : SameRow(RowsOf(r)[j], filtered_data[r][j])
             /\ response[r].raised.at \in {"fetch_data_from_dex", "filter_data"} =>
                   RowsOf(r) = << >>
             /\ response[r].status = 200 =>
                   /\ Len(response[r].json) = Len(RowsOf(r))
                   /\ \A j \in 1..Len(RowsOf(r)) :
                         SameRow(RowsOf(r)[j], response[r].json[j]))

\* one request answered 200 with the two rows it inserted, the other failed
\* in filter_data and the table holds the two rows only
C8_Witness ==
    \E r, q \in Requests :
       /\ response[r].status = 200
       /\ Len(response[r].json) = 2
       /\ response[q].raised.at = "filter_data"
       /\ Len(table) = 2

\* the listings of raw above the cut-off, in the order of raw
Survivors(raw) == SelectSeq(raw, HighLiquidity)

(* C9: whatever the interleaving, a 200 response carries the rows of the   *)
(* request's own upstream list: one per listing above the cut-off, in      *)
(* order, with its pairAddress, price, liquidity and volume; once all      *)
(* requests are answered 200 the table holds each request's rows, each     *)
(* once, under ids of their own, and nothing else; and a request's list,   *)
(* frame and response change in its own steps only.                        *)
C9_NoInterference ==
    /\ [](\A r \in Requests :
             response[r].status = 200 =>
                /\ Len(response[r].json) = Len(Survivors(raw_data[r]))
                /\ \A j \in 1..Len(response[r].json) :
                      LET l == Survivors(raw_data[r])[j]
                          row == response[r].json[j]
                      IN  /\ row.pairAddress = l.pairAddress
                          /\ row.price = ExpectedPrice(l)
                          /\ row.liquidity = to_numeric(Lookup(l.liquidity, "usd"))
                          /\ row.volume = ExpectedVolume(l))
    /\ []((\A r \in Requests : response[r].status = 200) =>
             /\ Len(table) = SumHigh(Requests)
             /\ \A i \in 1..Len(table) : table[i].id = i /\ table[i].req \in Requests
             /\ \A r \in Requests :
                   /\ Len(RowsOf(r)) = Len(response[r].json)
                   /\ \A j \in 1..Len(RowsOf(r)) :
                         SameRow(RowsOf(r)[j], response[r].json[j]))
    /\ [][\A r \in Requests :
             (pc'[r] = pc[r] /\ written'[r] = written[r]) =>
                /\ raw_data'[r] = raw_data[r]
                /\ filtered_data'[r] = filtered_data[r]
                /\ response'[r] = response[r]
                /\ RowsOf(r)' = RowsOf(r)]_vars

\* two requests over different lists, both answered 200, their inserts
\* interleaved row by row
C9_Witness ==
    /\ \A r \in Requests : response[r].status = 200
    /\ raw_data[1] = <<Plain("A", 6000), Plain("A", 6000)>>
    /\ raw_data[2] = <<Plain("B", 4000), Plain("A", 6000)>>
    /\ Len(table) = 3
    /\ table[1].req = 1 /\ table[2].req = 2 /\ table[3].req = 1

(* C10, as stated: when an INSERT fails, the rows the request had inserted *)
(* stay in the table, the later ones are absent, and the error is caught   *)
(* by no except clause of the handler: the 500 is not the handler's.       *)
C10_WriteErrorUnhandled ==
    \A r \in Requests :
       response[r].raised.at = "conn.execute" =>
          /\ response[r].status = 500
          /\ Len(RowsOf(r)) = written[r]
          /\ written[r] < Len(filtered_data[r])
          /\ response[r].clause = "none"
          /\ response[r].kind # "json_error"

(* C10, amended: when an INSERT fails, the rows the request had inserted   *)
(* stay in the table and the later ones are absent; the error is caught by *)
(* the handler's last clause, except Exception, and answered 500 with the  *)
(* JSON error "An unexpected error occurred."; the request is never        *)
(* answered 200.                                                           *)
C10_PartialWrite ==
    \A r \in Requests :
       response[r].raised.at = "conn.execute" =>
          /\ pc[r] = "done"
          /\ response[r].status = 500
          /\ response[r].clause = "Exception"
          /\ response[r].kind = "json_error"
          /\ response[r].error = "An unexpected error occurred."
          /\ response[r].json = << >>
          /\ written[r] < Len(filtered_data[r])
          /\ Len(RowsOf(r)) = written[r]
          /\ \A j \in 1..written[r] : SameRow(RowsOf(r)[j], filtered_data[r][j])

\* the second of two INSERTs failed: the first row is in the table
C10_Witness ==
    \E r \in Requests :
       /\ response[r].raised.at = "conn.execute"
       /\ Len(filtered_data[r]) = 2
       /\ written[r] = 1
       /\ Len(RowsOf(r)) = 1
       /\ SameRow(RowsOf(r)[1], filtered_data[r][1])

=============================================================================
